---------------------------- MODULE Spec2Model ----------------------------
(***************************************************************************)
(* Model of src/rules/no-extraneous-dependencies.js: the rule reads the    *)
(* nearest package.json and the configured packageDir manifests, merges    *)
(* their four dependency categories, computes the per-file allow flags     *)
(* and reports imports/requires of packages the manifests do not allow.    *)
(*                                                                         *)
(* Strings whose characters the code inspects (module specifiers, package  *)
(* names) are sequences of one-character strings.  Paths and glob patterns *)
(* are sequences of path segments (the leading segment "" marks an         *)
(* absolute path).                                                         *)
(***************************************************************************)
EXTENDS Integers, Sequences, FiniteSets, TLC

(***************************************************************************)
(* Bounds of the model.                                                    *)
(***************************************************************************)
MaxSites == 1
MaxDirs == 2

Undefined == "undefined"

Min(a, b) == IF a < b THEN a ELSE b

(***************************************************************************)
(* String.prototype.split / Array.prototype.slice / Array.prototype.join   *)
(***************************************************************************)
RECURSIVE SplitFrom(_, _, _)
SplitFrom(s, sep, cur) ==
  IF s = <<>> THEN <<cur>>
  ELSE IF Head(s) = sep THEN <<cur>> \o SplitFrom(Tail(s), sep, <<>>)
  ELSE SplitFrom(Tail(s), sep, Append(cur, Head(s)))

split(s, sep) == SplitFrom(s, sep, <<>>)

slice(arr, from, to) == SubSeq(arr, from + 1, Min(to, Len(arr)))

RECURSIVE join(_, _)
join(arr, sep) ==
  IF arr = <<>> THEN <<>>
  ELSE IF Len(arr) = 1 THEN arr[1]
  ELSE arr[1] \o <<sep>> \o join(Tail(arr), sep)

(***************************************************************************)
(* Plain JavaScript objects: a function from own keys to values, with the  *)
(* properties every object inherits from Object.prototype.  Among the      *)
(* inherited names, "constructor" is the one that is also a valid npm      *)
(* package name.                                                           *)
(***************************************************************************)
EmptyObj == [k \in {} |-> Undefined]

S_constructor == <<"c","o","n","s","t","r","u","c","t","o","r">>

ObjectPrototypeKeys == { S_constructor }

\* obj[key]: own property, else the inherited one, else undefined
Get(obj, key) ==
  IF key \in DOMAIN obj THEN obj[key]
  ELSE IF key \in ObjectPrototypeKeys THEN "[inherited]"
  ELSE Undefined

ObjectAssign(target, source) ==
  [k \in (DOMAIN target) \cup (DOMAIN source) |->
     IF k \in DOMAIN source THEN source[k] ELSE target[k]]

hasKeys_always(obj) == TRUE

hasKeys(obj) == Cardinality(DOMAIN obj) > 0

Fields == {"dependencies", "devDependencies", "optionalDependencies", "peerDependencies"}

extractDepFields(pkg) ==
  [dependencies         |-> IF "dependencies" \in DOMAIN pkg THEN pkg["dependencies"] ELSE EmptyObj,
   devDependencies      |-> IF "devDependencies" \in DOMAIN pkg THEN pkg["devDependencies"] ELSE EmptyObj,
   optionalDependencies |-> IF "optionalDependencies" \in DOMAIN pkg THEN pkg["optionalDependencies"] ELSE EmptyObj,
   peerDependencies     |-> IF "peerDependencies" \in DOMAIN pkg THEN pkg["peerDependencies"] ELSE EmptyObj]

assignDeps_replace(fromDeps, toDeps) ==
  [dependencies         |-> toDeps.dependencies,
   devDependencies      |-> toDeps.devDependencies,
   optionalDependencies |-> toDeps.optionalDependencies,
   peerDependencies     |-> toDeps.peerDependencies]

assignDeps(fromDeps, toDeps) ==
  [dependencies         |-> ObjectAssign(fromDeps.dependencies, toDeps.dependencies),
   devDependencies      |-> ObjectAssign(fromDeps.devDependencies, toDeps.devDependencies),
   optionalDependencies |-> ObjectAssign(fromDeps.optionalDependencies, toDeps.optionalDependencies),
   peerDependencies     |-> ObjectAssign(fromDeps.peerDependencies, toDeps.peerDependencies)]

(***************************************************************************)
(* Messages: template literals, kept as the sequence of their pieces so    *)
(* that the substituted package name stays visible.                        *)
(***************************************************************************)
missingErrorMessage(packageName) ==
  <<"'", packageName, "' should be listed in the project's dependencies. ",
    "Run 'npm i -S ", packageName, "' to add it">>

devDepErrorMessage(packageName) ==
  <<"'", packageName, "' should be listed in the project's dependencies, not devDependencies.">>

optDepErrorMessage(packageName) ==
  <<"'", packageName, "' should be listed in the project's dependencies, ",
    "not optionalDependencies.">>


(***************************************************************************)
(* Paths (module path).  A path is its sequence of segments; an absolute   *)
(* path starts with the empty segment.                                     *)
(***************************************************************************)
Cwd == <<"", "cwd">>

ManifestName == "package.json"

isAbsolute(p) == p # <<>> /\ p[1] = ""

\* drops "." and interior empty segments, resolves ".."
RECURSIVE normalizeInto(_, _)
normalizeInto(acc, rest) ==
  IF rest = <<>> THEN acc
  ELSE LET seg == Head(rest) IN
       IF seg = "." \/ (seg = "" /\ acc # <<>>) THEN normalizeInto(acc, Tail(rest))
       ELSE IF seg = ".." /\ Len(acc) > 1 THEN normalizeInto(SubSeq(acc, 1, Len(acc) - 1), Tail(rest))
       ELSE IF seg = ".." /\ acc = <<"">> THEN normalizeInto(acc, Tail(rest))
       ELSE normalizeInto(Append(acc, seg), Tail(rest))

normalize(p) == normalizeInto(<<>>, p)

\* path.join(a, b)
pathJoin(a, b) == normalize(a \o b)

\* path.resolve(dir, name), relative paths resolved against process.cwd()
pathResolve(dir, name) ==
  IF isAbsolute(dir) THEN normalize(Append(dir, name))
  ELSE normalize(Append(Cwd \o dir, name))

(***************************************************************************)
(* minimatch(filename, pattern) on path segments: "**" stands for any      *)
(* number of segments (at least one when it ends the pattern), "*" for     *)
(* one non-empty segment, anything else for itself.                        *)
(***************************************************************************)
RECURSIVE minimatch(_, _)
minimatch(f, p) ==
  IF p = <<>> THEN f = <<>>
  ELSE IF Head(p) = "**" THEN
         IF Tail(p) = <<>> THEN f # <<>>
         ELSE minimatch(f, Tail(p)) \/ (f # <<>> /\ minimatch(Tail(f), p))
  ELSE IF f = <<>> THEN FALSE
  ELSE IF Head(p) = "*" THEN Head(f) # "" /\ minimatch(Tail(f), Tail(p))
  ELSE Head(f) = Head(p) /\ minimatch(Tail(f), Tail(p))

(***************************************************************************)
(* Option values.  A JavaScript value of an option is tagged with its      *)
(* typeof: undefined, boolean or array (of glob patterns).                 *)
(***************************************************************************)
JsUndefined == [type |-> "undefined", bool |-> FALSE, list |-> <<>>]
JsBool(b) == [type |-> "boolean", bool |-> b, list |-> <<>>]
JsArray(l) == [type |-> "array", bool |-> FALSE, list |-> l]

testConfig_asGivenOnly(config, filename) ==
  IF config.type = "boolean" \/ config.type = "undefined" THEN config
  ELSE JsBool(\E i \in 1..Len(config.list) : minimatch(filename, config.list[i]))

testConfig(config, filename) ==
  IF config.type = "boolean" \/ config.type = "undefined" THEN config
  ELSE JsBool(\E i \in 1..Len(config.list) :
                 \/ minimatch(filename, config.list[i])
                 \/ minimatch(filename, pathJoin(Cwd, config.list[i])))

\* x !== false
notFalse(x) == ~(x.type = "boolean" /\ x.bool = FALSE)

(***************************************************************************)
(* The file system: the state of each manifest file.                       *)
(*   "ENOENT"  no such file          "EACCES"  exists but cannot be read   *)
(*   "badjson" exists, invalid JSON  "ok"      exists, parses to pkg       *)
(***************************************************************************)
NoFile == [kind |-> "ENOENT", pkg |-> EmptyObj]

fileState(disk, p) == IF p \in DOMAIN disk THEN disk[p] ELSE NoFile

NoError == [code |-> Undefined, name |-> Undefined, message |-> Undefined]

\* fs.readFileSync followed by a JSON parse that throws parseErrorName
readJson(disk, p, parseErrorName) ==
  LET st == fileState(disk, p) IN
  CASE st.kind = "ENOENT" ->
         [threw |-> TRUE, value |-> EmptyObj,
          err |-> [code |-> "ENOENT", name |-> "Error",
                   message |-> "ENOENT: no such file or directory"]]
    [] st.kind = "EACCES" ->
         [threw |-> TRUE, value |-> EmptyObj,
          err |-> [code |-> "EACCES", name |-> "Error",
                   message |-> "EACCES: permission denied"]]
    [] st.kind = "badjson" ->
         [threw |-> TRUE, value |-> EmptyObj,
          err |-> [code |-> Undefined, name |-> parseErrorName,
                   message |-> "Unexpected token"]]
    [] OTHER -> [threw |-> FALSE, value |-> st.pkg, err |-> NoError]

\* find-up: the first of dir/package.json, parent/package.json, ... that exists
RECURSIVE findUp(_, _)
findUp(disk, dir) ==
  IF fileState(disk, Append(dir, ManifestName)).kind # "ENOENT"
    THEN Append(dir, ManifestName)
  ELSE IF Len(dir) <= 1 THEN <<>>
  ELSE findUp(disk, SubSeq(dir, 1, Len(dir) - 1))

dirname(p) == SubSeq(p, 1, Len(p) - 1)

\* readPkgUp.sync({cwd, normalize: false}): {} when no manifest is found,
\* else {pkg, path}; reading or parsing the found manifest may throw
readPkgUpSync(disk, filename) ==
  LET fp == findUp(disk, dirname(filename)) IN
  IF fp = <<>>
    THEN [threw |-> FALSE, err |-> NoError, found |-> FALSE, path |-> <<>>, pkg |-> EmptyObj]
  ELSE LET r == readJson(disk, fp, "JSONError") IN
       [threw |-> r.threw, err |-> r.err, found |-> TRUE, path |-> fp, pkg |-> r.value]

(***************************************************************************)
(* context.report: a diagnostic.  A report made with a descriptor carries  *)
(* the loc it was given and no node (node 0); a report made on a node      *)
(* carries the node and the node's own position (nodes are numbered from   *)
(* 1, and node n stands on line n).                                        *)
(***************************************************************************)
reportAt(loc, message) == [node |-> 0, loc |-> loc, message |-> message]

reportOn(node, message) ==
  [node |-> node, loc |-> [line |-> node, column |-> 0], message |-> message]

(***************************************************************************)
(* getDependencies                                                         *)
(***************************************************************************)
\* packageDir ? [].concat(packageDir) : []
concatDirs(packageDir) ==
  CASE packageDir.type = "undefined" -> <<>>
    [] packageDir.type = "string" ->
         IF packageDir.dir = <<>> THEN <<>> ELSE <<packageDir.dir>>
    [] OTHER -> packageDir.list

indexOf(arr, x) ==
  IF \E i \in 1..Len(arr) : arr[i] = x
    THEN (CHOOSE i \in 1..Len(arr) : arr[i] = x /\ \A j \in 1..(i - 1) : arr[j] # x) - 1
    ELSE -1

\* the reduce over the configured directories; stops at the first throw
RECURSIVE reduceDirs(_, _, _, _)
reduceDirs(disk, dirs, files, allDeps) ==
  IF dirs = <<>> THEN [threw |-> FALSE, err |-> NoError, files |-> files, deps |-> allDeps]
  ELSE LET pkgFile == pathResolve(Head(dirs), ManifestName) IN
       IF indexOf(files, pkgFile) = -1
         THEN LET r == readJson(disk, pkgFile, "SyntaxError") IN
              IF r.threw
                THEN [threw |-> TRUE, err |-> r.err,
                      files |-> Append(files, pkgFile), deps |-> allDeps]
                ELSE reduceDirs(disk, Tail(dirs), Append(files, pkgFile),
                                assignDeps(allDeps, extractDepFields(r.value)))
         ELSE reduceDirs(disk, Tail(dirs), files, allDeps)

\* the catch block
catchReport(e) ==
  IF e.code = "ENOENT"
    THEN reportAt([line |-> 0, column |-> 0], <<"The package.json file could not be found.">>)
  ELSE IF e.name = "JSONError" \/ e.name = "SyntaxError"
    THEN reportAt([line |-> 0, column |-> 0],
                  <<"The package.json file could not be parsed: ", e.message>>)
  ELSE reportAt([line |-> 0, column |-> 0], <<e.message>>)

NoDeps == extractDepFields(EmptyObj)

TypeErrorNoPkg ==
  [code |-> Undefined, name |-> "TypeError",
   message |-> "Cannot read property 'dependencies' of undefined"]

getDependencies(disk, filename, packageDir) ==
  LET closest == readPkgUpSync(disk, filename) IN
  IF closest.threw
    THEN [defined |-> FALSE, table |-> NoDeps, files |-> <<>>,
          reports |-> <<catchReport(closest.err)>>]
  ELSE IF ~closest.found
    \* closest is {}: closest.pkg is undefined and extractDepFields throws
    THEN [defined |-> FALSE, table |-> NoDeps, files |-> <<closest.path>>,
          reports |-> <<catchReport(TypeErrorNoPkg)>>]
  ELSE LET r == reduceDirs(disk, concatDirs(packageDir), <<closest.path>>,
                           extractDepFields(closest.pkg)) IN
       IF r.threw
         THEN [defined |-> FALSE, table |-> NoDeps, files |-> r.files,
               reports |-> <<catchReport(r.err)>>]
       ELSE IF \/ hasKeys(r.deps.dependencies)
               \/ hasKeys(r.deps.devDependencies)
               \/ hasKeys(r.deps.optionalDependencies)
               \/ hasKeys(r.deps.peerDependencies)
         THEN [defined |-> TRUE, table |-> r.deps, files |-> r.files, reports |-> <<>>]
       ELSE [defined |-> FALSE, table |-> NoDeps, files |-> r.files, reports |-> <<>>]

(***************************************************************************)
(* reportIfMissing                                                         *)
(***************************************************************************)
\* ../core/importType: a relative or absolute specifier is never external;
\* for a bare specifier the answer depends on the installation (answer)
importType(name, answer) ==
  IF name # <<>> /\ name[1] = "." THEN "sibling"
  ELSE IF name # <<>> /\ name[1] = "/" THEN "absolute"
  ELSE answer

\* name.split('/') and the choice of the package name
packageNameOf_slice3(name) ==
  LET splitName == split(name, "/") IN
  IF splitName[1] # <<>> /\ splitName[1][1] = "@"
    THEN join(slice(splitName, 0, 3), "/")
    ELSE splitName[1]

packageNameOf(name) ==
  LET splitName == split(name, "/") IN
  IF splitName[1] # <<>> /\ splitName[1][1] = "@"
    THEN join(slice(splitName, 0, 2), "/")
    ELSE splitName[1]

\* the three early returns: type imports, non-external and unresolved names
isSkipped_noResolve(importKind, name, typeAnswer, resolved) ==
  \/ importKind = "type"
  \/ importType(name, typeAnswer) # "external"

isSkipped(importKind, name, typeAnswer, resolved) ==
  \/ importKind = "type"
  \/ importType(name, typeAnswer) # "external"
  \/ ~resolved

\* deps.<category>[packageName] !== undefined
isIn(category, packageName) == Get(category, packageName) # Undefined

\* the condition of the silent return
isAllowed_devFirst(isInDeps, isInDevDeps, isInOptDeps, isInPeerDeps, depsOptions) ==
  \/ (isInDeps /\ ~isInDevDeps)
  \/ (depsOptions.allowDevDeps /\ isInDevDeps)
  \/ (depsOptions.allowPeerDeps /\ isInPeerDeps)
  \/ (depsOptions.allowOptDeps /\ isInOptDeps)

isAllowed(isInDeps, isInDevDeps, isInOptDeps, isInPeerDeps, depsOptions) ==
  \/ isInDeps
  \/ (depsOptions.allowDevDeps /\ isInDevDeps)
  \/ (depsOptions.allowPeerDeps /\ isInPeerDeps)
  \/ (depsOptions.allowOptDeps /\ isInOptDeps)

\* the reports reportIfMissing makes for one node
reportIfMissing(deps, depsOptions, node, importKind, name, typeAnswer, resolved) ==
  IF isSkipped(importKind, name, typeAnswer, resolved) THEN <<>>
  ELSE
    LET packageName == packageNameOf(name)
        isInDeps == isIn(deps.dependencies, packageName)
        isInDevDeps == isIn(deps.devDependencies, packageName)
        isInOptDeps == isIn(deps.optionalDependencies, packageName)
        isInPeerDeps == isIn(deps.peerDependencies, packageName)
    IN
    IF isAllowed(isInDeps, isInDevDeps, isInOptDeps, isInPeerDeps, depsOptions)
      THEN <<>>
    ELSE IF isInDevDeps /\ ~depsOptions.allowDevDeps
      THEN <<reportOn(node, devDepErrorMessage(packageName))>>
    ELSE IF isInOptDeps /\ ~depsOptions.allowOptDeps
      THEN <<reportOn(node, optDepErrorMessage(packageName))>>
    ELSE <<reportOn(node, missingErrorMessage(packageName))>>

(***************************************************************************)
(* The inputs the model draws from.                                        *)
(***************************************************************************)
S_p == <<"p">>
S_q == <<"q">>
S_scoped == <<"@","s","/","p">>

\* module specifiers found in the analysed file
Specifiers ==
  { S_p, <<"p","/","x">>, S_q, S_scoped, <<"@","s","/","p","/","x","/","y">>,
    S_constructor, <<".","/","l">> }

ImportKinds == {"value", "type"}

\* what importType answers for a bare specifier
TypeAnswers == {"external", "builtin"}

\* a parsed package.json: the fields named in entries, each mapping its
\* names to the version v
Pkg(entries, v) ==
  [f \in {e[1] : e \in entries} |->
     [n \in {e[2] : e \in {d \in entries : d[1] = f}} |-> v]]

Ok(pkg) == [kind |-> "ok", pkg |-> pkg]
Broken(kind) == [kind |-> kind, pkg |-> EmptyObj]

RootManifest == Cwd \o <<ManifestName>>
AManifest == Cwd \o <<"a", ManifestName>>
BManifest == Cwd \o <<"b", ManifestName>>

SrcFile == Cwd \o <<"src", "foo.js">>
TestFile == Cwd \o <<"test", "unit", "foo.js">>
AFile == Cwd \o <<"a", "foo.js">>

NoOptions ==
  [devDependencies |-> JsUndefined, optionalDependencies |-> JsUndefined,
   peerDependencies |-> JsUndefined,
   packageDir |-> [type |-> "undefined", dir |-> <<>>, list |-> <<>>]]

\* (1) one manifest listing one name in any categories, boolean options
ClassifyTables ==
  { Pkg({<<f, n>> : f \in fs}, "1.0.0") :
      n \in {S_p, S_scoped, S_constructor}, fs \in (SUBSET Fields) \ {{}} }

ClassifyWorlds ==
  { [disk |-> (RootManifest :> Ok(t)), filename |-> SrcFile,
     options |-> [NoOptions EXCEPT !.devDependencies = JsBool(d),
                                   !.optionalDependencies = JsBool(o),
                                   !.peerDependencies = JsBool(pe)]] :
      t \in ClassifyTables, d \in BOOLEAN, o \in BOOLEAN, pe \in BOOLEAN }

\* (2) one manifest, options absent or lists of glob patterns
GlobLists ==
  { <<>>, << <<"test", "**">> >>, << <<"lib", "*">>, Cwd \o <<"test", "**">> >> }

PolicyValues == {JsUndefined} \cup {JsArray(l) : l \in GlobLists}

PolicyPkg ==
  Pkg({<<"devDependencies", S_p>>, <<"optionalDependencies", S_scoped>>,
       <<"peerDependencies", S_q>>}, "1.0.0")

PolicyWorlds ==
  { [disk |-> (RootManifest :> Ok(PolicyPkg)), filename |-> f,
     options |-> [NoOptions EXCEPT !.devDependencies = d,
                                   !.optionalDependencies = o,
                                   !.peerDependencies = pe]] :
      f \in {SrcFile, TestFile}, d \in PolicyValues, o \in PolicyValues,
      pe \in PolicyValues }

\* (3) three manifests in any state, packageDir a string or a list
DirNames == { <<"a">>, <<".", "a">>, <<"b">> }

RECURSIVE SeqsUpTo(_, _)
SeqsUpTo(S, n) ==
  IF n = 0 THEN {<<>>}
  ELSE LET shorter == SeqsUpTo(S, n - 1) IN
       shorter \cup {Append(q, x) : q \in shorter, x \in S}

PackageDirs ==
  {[type |-> "undefined", dir |-> <<>>, list |-> <<>>]}
    \cup {[type |-> "string", dir |-> d, list |-> <<>>] : d \in DirNames}
    \cup {[type |-> "array", dir |-> <<>>, list |-> l] : l \in SeqsUpTo(DirNames, MaxDirs)}

BrokenStates == {Broken("ENOENT"), Broken("EACCES"), Broken("badjson")}

RootStates ==
  {Broken("ENOENT")} \cup
    { Ok(EmptyObj),
      Ok(Pkg({<<"dependencies", S_p>>, <<"devDependencies", S_q>>}, "1.0.0")) }

AStates ==
  BrokenStates \cup
    { Ok([dependencies |-> EmptyObj]),
      Ok(Pkg({<<"dependencies", S_scoped>>, <<"devDependencies", S_p>>}, "2.0.0")) }

BStates ==
  {Broken("ENOENT")} \cup
    { Ok(Pkg({<<"devDependencies", S_q>>, <<"peerDependencies", S_p>>,
              <<"optionalDependencies", S_constructor>>}, "3.0.0")) }

ManifestWorlds ==
  { [disk |-> (RootManifest :> r) @@ (AManifest :> a) @@ (BManifest :> b),
     filename |-> f,
     options |-> [NoOptions EXCEPT !.packageDir = pd]] :
      r \in RootStates, a \in AStates, b \in BStates, f \in {SrcFile, AFile},
      pd \in PackageDirs }

Worlds == ClassifyWorlds \cup PolicyWorlds \cup ManifestWorlds

(***************************************************************************)
(* The rule applied to one file.                                           *)
(***************************************************************************)
VARIABLES
  disk,         \* the manifests on disk
  filename,     \* context.getFilename()
  options,      \* context.options[0] || {}
  pc,           \* "start" before create, "created" after
  deps,         \* the result of getDependencies
  files,        \* the manifest paths getDependencies consulted
  depsOptions,  \* the allow flags
  visitor,      \* the node types create returned a handler for
  reports,      \* the diagnostics reported so far
  sites,        \* the number of nodes visited so far
  lastSite      \* the node visited last and what was learnt about it

vars == <<disk, filename, options, pc, deps, files, depsOptions, visitor, reports,
          sites, lastSite>>

NoSite ==
  [handler |-> "none", name |-> <<>>, importKind |-> "value", isStatic |-> FALSE,
   importType |-> "unasked", resolved |-> "unasked", packageName |-> <<>>]

Init ==
  /\ \E w \in Worlds :
       /\ disk = w.disk
       /\ filename = w.filename
       /\ options = w.options
  /\ pc = "start"
  /\ deps = [defined |-> FALSE, table |-> NoDeps]
  /\ files = <<>>
  /\ depsOptions = [allowDevDeps |-> FALSE, allowOptDeps |-> FALSE, allowPeerDeps |-> FALSE]
  /\ visitor = {}
  /\ reports = <<>>
  /\ sites = 0
  /\ lastSite = NoSite

create ==
  /\ pc = "start"
  /\ pc' = "created"
  /\ LET got == getDependencies(disk, filename, options.packageDir) IN
       /\ deps' = [defined |-> got.defined, table |-> got.table]
       /\ files' = got.files
       /\ reports' = reports \o got.reports
       /\ IF ~got.defined
            THEN /\ visitor' = {}
                 /\ UNCHANGED depsOptions
            ELSE /\ visitor' = {"ImportDeclaration", "CallExpression"}
                 /\ depsOptions' =
                      [allowDevDeps |-> notFalse(testConfig(options.devDependencies, filename)),
                       allowOptDeps |-> notFalse(testConfig(options.optionalDependencies, filename)),
                       allowPeerDeps |-> notFalse(testConfig(options.peerDependencies, filename))]
  /\ UNCHANGED <<disk, filename, options, sites, lastSite>>

\* what a visit records about its node: only the answers the code asked for
siteOf(handler, importKind, isStatic, name, typeAnswer, resolved) ==
  LET typeAsked == isStatic /\ importKind # "type"
      type == importType(name, typeAnswer)
      resolveAsked == typeAsked /\ type = "external"
  IN [handler |-> handler, name |-> IF isStatic THEN name ELSE <<>>,
      importKind |-> importKind, isStatic |-> isStatic,
      importType |-> IF typeAsked THEN type ELSE "unasked",
      resolved |-> IF ~resolveAsked THEN "unasked" ELSE IF resolved THEN "yes" ELSE "no",
      packageName |-> IF resolveAsked /\ resolved THEN packageNameOf(name) ELSE <<>>]

\* the answers a visit can get: importType and resolve are consulted only
\* when the code reaches them
typeAnswersFor(importKind, isStatic, name) ==
  IF isStatic /\ importKind # "type" /\ importType(name, "external") = "external"
    THEN TypeAnswers ELSE {"unasked"}

resolveAnswersFor(typeAnswer) ==
  IF typeAnswer = "external" THEN BOOLEAN ELSE {FALSE}

ImportDeclaration ==
  /\ pc = "created"
  /\ "ImportDeclaration" \in visitor
  /\ sites < MaxSites
  /\ \E name \in Specifiers, importKind \in ImportKinds :
       \E typeAnswer \in typeAnswersFor(importKind, TRUE, name) :
         \E resolved \in resolveAnswersFor(typeAnswer) :
           /\ reports' = reports \o reportIfMissing(deps.table, depsOptions, sites + 1,
                                                    importKind, name, typeAnswer, resolved)
           /\ lastSite' = siteOf("ImportDeclaration", importKind, TRUE, name,
                                 typeAnswer, resolved)
  /\ sites' = sites + 1
  /\ UNCHANGED <<disk, filename, options, pc, deps, files, depsOptions, visitor>>

CallExpression ==
  /\ pc = "created"
  /\ "CallExpression" \in visitor
  /\ sites < MaxSites
  /\ \E isStaticRequire \in BOOLEAN :
       \E name \in (IF isStaticRequire THEN Specifiers ELSE {<<>>}) :
         \E typeAnswer \in typeAnswersFor("value", isStaticRequire, name) :
           \E resolved \in resolveAnswersFor(typeAnswer) :
             /\ reports' =
                  IF isStaticRequire
                    THEN reports \o reportIfMissing(deps.table, depsOptions, sites + 1,
                                                    "value", name, typeAnswer, resolved)
                    ELSE reports
             /\ lastSite' = siteOf("CallExpression", "value", isStaticRequire, name,
                                   typeAnswer, resolved)
  /\ sites' = sites + 1
  /\ UNCHANGED <<disk, filename, options, pc, deps, files, depsOptions, visitor>>

Next == create \/ ImportDeclaration \/ CallExpression

Spec == Init /\ [][Next]_vars

(***************************************************************************)
(* What the properties speak about.                                        *)
(***************************************************************************)
Range(q) == {q[i] : i \in 1..Len(q)}

SetMin(S) == CHOOSE x \in S : \A y \in S : x <= y

\* a node has been visited
Visited == lastSite.handler # "none"

\* the last node passed the three early returns of reportIfMissing: a
\* non-type import or a static require of an external, resolvable name
Checked ==
  /\ Visited
  /\ lastSite.isStatic
  /\ lastSite.importKind # "type"
  /\ lastSite.importType = "external"
  /\ lastSite.resolved = "yes"

\* the diagnostics reported on the last node
SiteReports == SelectSeq(reports, LAMBDA r : r.node = sites)

\* the package name of a specifier, by the position of its slashes: up to
\* the second slash when the specifier begins with "@", else up to the first
PackageOf(name) ==
  LET slashes == {i \in 1..Len(name) : name[i] = "/"}
      later == {i \in slashes : i > SetMin(slashes)}
  IN IF slashes = {} THEN name
     ELSE IF name[1] = "@"
       THEN IF later = {} THEN name ELSE SubSeq(name, 1, SetMin(later) - 1)
     ELSE SubSeq(name, 1, SetMin(slashes) - 1)

LastPkg == PackageOf(lastSite.name)

\* the package name of the last node is a key of the merged category
Listed(category) == LastPkg \in DOMAIN deps.table[category]

InRuntime == Listed("dependencies")
InDev == Listed("devDependencies")
InOpt == Listed("optionalDependencies")
InPeer == Listed("peerDependencies")

\* the manifests getDependencies has to consult
Nearest == findUp(disk, dirname(filename))

ConfiguredDirs ==
  CASE options.packageDir.type = "undefined" -> {}
    [] options.packageDir.type = "string" -> {options.packageDir.dir}
    [] OTHER -> Range(options.packageDir.list)

Consulted == {Nearest} \cup {pathResolve(d, ManifestName) : d \in ConfiguredDirs}

AllParse == Nearest # <<>> /\ \A m \in Consulted : fileState(disk, m).kind = "ok"

Failure == ~AllParse

ManifestKeys(m, category) ==
  LET pkg == fileState(disk, m).pkg IN
  IF category \in DOMAIN pkg THEN DOMAIN pkg[category] ELSE {}

UnionKeys(category) == UNION {ManifestKeys(m, category) : m \in Consulted}

FileLevel(r) == r.node = 0 /\ r.loc = [line |-> 0, column |-> 0]

(***************************************************************************)
(* Properties                                                              *)
(***************************************************************************)

\* C1: a checked import of a package listed in dependencies is never
\* reported, whatever the allow flags and whatever other categories list it.
C1_RuntimeAlwaysAllowed ==
  (Checked /\ InRuntime) => SiteReports = <<>>

C1_Witness ==
  /\ Checked /\ InRuntime /\ InDev /\ InOpt /\ InPeer
  /\ ~depsOptions.allowDevDeps /\ ~depsOptions.allowOptDeps /\ ~depsOptions.allowPeerDeps
  /\ SiteReports = <<>>

\* C2: a checked import of a package listed only in devDependencies (only in
\* optionalDependencies) is silent iff allowDevDeps (allowOptDeps) is true,
\* and otherwise gets exactly one diagnostic, with the dev (optional) message.
C2_DevOrOptOnly ==
  /\ (Checked /\ InDev /\ ~InRuntime /\ ~InOpt /\ ~InPeer) =>
       SiteReports = IF depsOptions.allowDevDeps THEN <<>>
                     ELSE <<reportOn(sites, devDepErrorMessage(LastPkg))>>
  /\ (Checked /\ InOpt /\ ~InRuntime /\ ~InDev /\ ~InPeer) =>
       SiteReports = IF depsOptions.allowOptDeps THEN <<>>
                     ELSE <<reportOn(sites, optDepErrorMessage(LastPkg))>>

\* C3: a checked import follows the decision table, first matching row
\* winning: silent if listed in dependencies or in an allowed category,
\* else the dev message if listed in devDependencies, else the optional
\* message if listed in optionalDependencies, else the generic message
\* (also for a package listed only in a disallowed peerDependencies).
C3_DecisionTable ==
  Checked =>
    SiteReports =
      IF \/ InRuntime
         \/ (InDev /\ depsOptions.allowDevDeps)
         \/ (InPeer /\ depsOptions.allowPeerDeps)
         \/ (InOpt /\ depsOptions.allowOptDeps)
        THEN <<>>
      ELSE IF InDev THEN <<reportOn(sites, devDepErrorMessage(LastPkg))>>
      ELSE IF InOpt THEN <<reportOn(sites, optDepErrorMessage(LastPkg))>>
      ELSE <<reportOn(sites, missingErrorMessage(LastPkg))>>

\* C4: a checked import of a package that is a key of none of the four
\* categories gets exactly one diagnostic, on its node, with the generic
\* message naming the package, for every package name and every policy.
C4_UnlistedReported ==
  (Checked /\ ~InRuntime /\ ~InDev /\ ~InOpt /\ ~InPeer) =>
    SiteReports = <<reportOn(sites, missingErrorMessage(LastPkg))>>

\* C5: the package name is the first two segments of a specifier that begins
\* with "@" and the first segment otherwise, so a specifier is classified as
\* its package name alone is.
C5_PackageNameFromLeadingSegments ==
  Checked =>
    /\ lastSite.packageName = LastPkg
    /\ SiteReports = reportIfMissing(deps.table, depsOptions, sites, "value",
                                     LastPkg, "external", TRUE)

C5_Witness ==
  /\ Checked
  /\ lastSite.name = <<"@","s","/","p","/","x","/","y">>
  /\ lastSite.packageName = S_scoped
  /\ InDev
  /\ SiteReports = <<reportOn(sites, devDepErrorMessage(S_scoped))>>

\* C6: a type import, a specifier that is not external and a specifier that
\* does not resolve are never reported, whatever the table and the policy.
C6_SkippedNeverReported ==
  (Visited /\ ~Checked) => SiteReports = <<>>

C6_Witness ==
  /\ Visited
  /\ lastSite.isStatic
  /\ lastSite.resolved = "no"
  /\ LastPkg = S_q
  /\ ~InRuntime /\ ~InDev /\ ~InOpt /\ ~InPeer
  /\ SiteReports = <<>>

\* the allow flag the configuration gives a category for the analysed file
EffectiveFlag(option) ==
  CASE option.type = "undefined" -> TRUE
    [] option.type = "boolean" -> option.bool
    [] OTHER -> \E pattern \in Range(option.list) :
                  \/ minimatch(filename, pattern)
                  \/ minimatch(filename, pathJoin(Cwd, pattern))

TestGlob == << <<"test", "**">> >>

\* C7: each allow flag is true for an absent option, the value of a boolean
\* option and, for a list of globs, whether the file matches one of them as
\* given or joined onto the working directory; so with devDependencies =
\* ["test/**"] a dev-only import is silent in test/unit/foo.js and gets the
\* dev message in src/foo.js.
C7_EffectiveAllowFlags ==
  (pc = "created" /\ deps.defined) =>
    /\ depsOptions.allowDevDeps = EffectiveFlag(options.devDependencies)
    /\ depsOptions.allowOptDeps = EffectiveFlag(options.optionalDependencies)
    /\ depsOptions.allowPeerDeps = EffectiveFlag(options.peerDependencies)
    /\ (/\ options.devDependencies = JsArray(TestGlob)
        /\ Checked /\ LastPkg = S_p
        /\ InDev /\ ~InRuntime /\ ~InOpt /\ ~InPeer) =>
         /\ filename = TestFile => SiteReports = <<>>
         /\ filename = SrcFile =>
              SiteReports = <<reportOn(sites, devDepErrorMessage(S_p))>>

C7_Witness ==
  /\ options.devDependencies = JsArray(TestGlob)
  /\ options.optionalDependencies = JsArray(<<>>)
  /\ filename = TestFile
  /\ Checked /\ LastPkg = S_p
  /\ InDev /\ ~InRuntime /\ ~InOpt /\ ~InPeer
  /\ depsOptions.allowDevDeps /\ ~depsOptions.allowOptDeps
  /\ SiteReports = <<>>

\* C8: when every manifest parses, each category of the table is exactly the
\* union of that category's keys over the nearest manifest and the manifests
\* of the configured directories (as a set: order, repetition, a string in
\* place of a one-element list and a directory that holds the nearest
\* manifest make no difference), each manifest is merged once and no
\* manifest diagnostic is made.
C8_MergeIsUnion ==
  (pc = "created" /\ AllParse) =>
    /\ \A r \in Range(reports) : r.node # 0
    /\ Range(files) = Consulted
    /\ Len(files) = Cardinality(Consulted)
    /\ deps.defined =>
         \A category \in Fields : DOMAIN deps.table[category] = UnionKeys(category)

C8_Witness ==
  /\ pc = "created" /\ AllParse /\ deps.defined
  /\ options.packageDir.type = "array"
  /\ Len(options.packageDir.list) = 2
  /\ Nearest = AManifest
  /\ Consulted = {AManifest, BManifest}
  /\ DOMAIN deps.table["devDependencies"] = {S_p, S_q}
  /\ DOMAIN deps.table["dependencies"] = {S_scoped}

\* C9: when getDependencies gives no table, no node of the file is ever
\* visited or reported; a manifest that is missing, unreadable or invalid
\* gives exactly one diagnostic, at line 0 column 0 and on no node, and
\* manifests that parse with all four merged categories empty give none.
C9_NoTableNoClassification ==
  pc = "created" =>
    /\ Failure => ~deps.defined
    /\ (AllParse /\ \A category \in Fields : UnionKeys(category) = {}) => ~deps.defined
    /\ ~deps.defined =>
         /\ visitor = {} /\ sites = 0 /\ lastSite = NoSite
         /\ Failure => (Len(reports) = 1 /\ FileLevel(reports[1]))
         /\ AllParse => reports = <<>>

C9_Witness ==
  /\ pc = "created" /\ ~deps.defined
  /\ Nearest = RootManifest
  /\ ManifestKeys(RootManifest, "dependencies") # {}
  /\ fileState(disk, AManifest).kind = "badjson"
  /\ AManifest \in Consulted
  /\ Len(reports) = 1 /\ FileLevel(reports[1])

\* C10: the manifest diagnostic names the failure: "could not be found" when
\* no manifest exists in the file's directory or any ancestor, "could not be
\* parsed: <detail>" for a manifest with invalid syntax, and the error's own
\* text for any other failure.
C10_MessageNamesFailure ==
  (pc = "created" /\ Failure) =>
    LET broken == {fileState(disk, m).kind : m \in Consulted \ {<<>>}} \ {"ok"} IN
    /\ Nearest = <<>> =>
         reports[1].message = <<"The package.json file could not be found.">>
    /\ (Nearest # <<>> /\ broken = {"badjson"}) =>
         reports[1].message = <<"The package.json file could not be parsed: ", "Unexpected token">>
    /\ (Nearest # <<>> /\ broken = {"EACCES"}) =>
         reports[1].message = <<"EACCES: permission denied">>

=============================================================================
